---------------------------- MODULE Spec2Model ----------------------------
(***************************************************************************)
(* Model of onboarder.py: the main block (lines 175-185), get_mist_commands *)
(* (lines 104-133) and send_commands (lines 139-172).                      *)
(*                                                                         *)
(* Python values are modelled as follows.  A text is a sequence of         *)
(* characters.  A status dictionary is an object of the heap `objs`,       *)
(* named by the index of the inventory entry it was created for; the list  *)
(* `statuses` holds references to such objects, as a Python list does.     *)
(* A netmiko connection is a handle, named by the index of the inventory   *)
(* entry it was opened for; `session` is the state of each handle.  The    *)
(* only call that closes a handle is disconnect(), which the program never *)
(* issues; commit(and_quit=True) sends "commit and-quit", which leaves the *)
(* configuration mode of the device and keeps the connection open.         *)
(***************************************************************************)
EXTENDS Integers, Sequences, FiniteSets, TLC

\* ---------------------------------------------------------------- bounds
MaxDevices == 2
MaxTextLen == 2

NL == "\n"
Chars == {"s", NL}
IPs == {"10.0.0.1", "10.0.0.2"}
Messages == {"connection timeout", "syntax error"}
StatusCodes == {200, 401, 500}
None == "None"

\* All sequences over S of length at most n.
SeqsUpTo(S, n) == UNION {[1..k -> S] : k \in 0..n}

Texts == SeqsUpTo(Chars, MaxTextLen)

\* A row of the inventory as parse_arguments builds it.
Device(ip) == [ip |-> ip, device_type |-> "juniper"]

Inventories == SeqsUpTo({Device(ip) : ip \in IPs}, MaxDevices)

\* ------------------------------------------------------- pure functions
\* str.split('\n'): the pieces between the line breaks, empty pieces kept;
\* the text without a line break is a single piece.
RECURSIVE SplitFrom(_, _)
SplitFrom(text, cur) ==
    IF text = <<>> THEN <<cur>>
    ELSE IF Head(text) = NL
         THEN <<cur>> \o SplitFrom(Tail(text), <<>>)
         ELSE SplitFrom(Tail(text), Append(cur, Head(text)))

\* Split dropping the empty pieces, as str.split() without separator does.
SplitDropsEmpty(text) == SelectSeq(SplitFrom(text, <<>>), LAMBDA piece : piece # <<>>)

Split(text) == SplitFrom(text, <<>>)

\* An exception carrying one message argument, and str() of it.
Exc(type, msg) == [type |-> type, msg |-> msg]
Str(e) == e.msg

\* No exception.
NoExc == Exc("None", "None")

\* The message of line 129: f"Status code: {res.status_code}".
StatusCodeMsg(code) ==
    CASE code = 200 -> "Status code: 200"
      [] code = 401 -> "Status code: 401"
      [] code = 500 -> "Status code: 500"

\* The response of line 119: its status_code, and what res.json()['cmd']
\* yields: a text (kind "text") or the exception named by kind.
Res(code, kind, cmd) == [status_code |-> code, kind |-> kind, cmd |-> cmd]

\* No response.
NoRes == Res(0, "None", <<>>)

\* ---------------------------------------------------------------- state
VARIABLES
    pc,          \* position of the main block
    devices,     \* config['devices']
    commands,    \* the value get_mist_commands returned (<<>>: unbound)
    fatal,       \* the exception that left the main block, or NoExc
    res,         \* the response requests.get returned, or NoRes
    run,         \* number of the invocation of the program
    idx,         \* number of inventory entries the for loop has taken
    status,      \* the object `status` is bound to (0: unbound)
    objs,        \* the status dictionaries created so far, by inventory index
    statuses,    \* the list `statuses`: references into objs
    exc,         \* the exception raised inside the try of line 156, or NoExc
    net_connect, \* the handle `net_connect` is bound to (0: unbound)
    session,     \* state of the connection handle of each inventory entry
    running,     \* per address: the command set active on the device
    calls,       \* the calls issued to requests and to netmiko, in order
    log,         \* entries of the 'onboarder' logger
    log_cmds,    \* entries of the 'onboarder-commands' logger
    stats,       \* the value send_commands returned (<<>> before it returns)
    successful,  \* line 180 (<<>> before)
    failed       \* line 181 (<<>> before)

vars == <<pc, devices, commands, fatal, res, run, idx, status, objs, statuses, exc,
          net_connect, session, running, calls, log, log_cmds, stats,
          successful, failed>>

Indices == 1..MaxDevices

Init ==
    /\ pc = "get_mist_commands"
    /\ devices \in Inventories
    /\ commands = <<>>
    /\ fatal = NoExc
    /\ res = NoRes
    /\ run = 1
    /\ idx = 0
    /\ status = 0
    /\ objs = <<>>
    /\ statuses = <<>>
    /\ exc = NoExc
    /\ net_connect = 0
    /\ session = [i \in Indices |-> "Disconnected"]
    /\ running = [ip \in IPs |-> <<>>]
    /\ calls = <<>>
    /\ log = <<>>
    /\ log_cmds = <<>>
    /\ stats = <<>>
    /\ successful = <<>>
    /\ failed = <<>>

\* A call: the operation, the inventory index of the handle (0: the Mist
\* API), the command lines passed, whether it returned, and the message of
\* the exception it raised.
Call(op, dev, arg, ok, err) ==
    [op |-> op, dev |-> dev, arg |-> arg, ok |-> ok, err |-> err]

Info(text, arg) == <<"INFO", text, arg>>
Debug(text, arg) == <<"DEBUG", text, arg>>
Error(text, arg) == <<"ERROR", text, arg>>

\* ---------------------------------------------------- get_mist_commands
loopVars == <<idx, status, objs, statuses, exc, net_connect, session, running>>
mainVars == <<stats, successful, failed>>

\* Lines 117-125: the request returns status 200 and a body whose 'cmd'
\* field is a text.
GetCommandsOk(text) ==
    /\ pc = "get_mist_commands"
    /\ calls' = Append(calls, Call("get", 0, <<>>, TRUE, None))
    /\ commands' = Split(text)
    /\ log' = log \o <<Info("Connecting to Mist API...", None),
                       Debug("Reading response from Mist API...", None),
                       Info("Got onboarding commands from Mist API...", None)>>
    /\ log_cmds' = Append(log_cmds, Debug("Commands", Split(text)))
    /\ res' = Res(200, "text", text)
    /\ pc' = "send_commands"
    /\ UNCHANGED <<devices, fatal, run>>
    /\ UNCHANGED loopVars
    /\ UNCHANGED mainVars

\* GetCommandsBadStatus without the raise of lines 129 and 133: the function
\* logs the status and returns nothing.
GetCommandsBadStatusNoRaise(code) ==
    /\ pc = "get_mist_commands"
    /\ code # 200
    /\ calls' = Append(calls, Call("get", 0, <<>>, TRUE, None))
    /\ log' = log \o <<Info("Connecting to Mist API...", None),
                       Debug("Reading response from Mist API...", None),
                       Error("Could not get commands from Mist API...", None),
                       Error("Mist API status code", StatusCodeMsg(code))>>
    /\ res' = Res(code, "unread", <<>>)
    /\ pc' = "send_commands"
    /\ UNCHANGED <<devices, commands, fatal, log_cmds, run>>
    /\ UNCHANGED loopVars
    /\ UNCHANGED mainVars

\* Lines 117-121 and 126-133: the request returns another status; line 129
\* raises, line 130 catches, lines 131-133 log and raise again, and the
\* exception leaves the main block at line 178.
GetCommandsBadStatus(code) ==
    /\ pc = "get_mist_commands"
    /\ code # 200
    /\ calls' = Append(calls, Call("get", 0, <<>>, TRUE, None))
    /\ log' = log \o <<Info("Connecting to Mist API...", None),
                       Debug("Reading response from Mist API...", None),
                       Error("Could not get commands from Mist API...", None),
                       Error("Mist API status code", StatusCodeMsg(code)),
                       Error("Could not get commands from Mist API...", None),
                       Error("Error connecting to Mist API",
                             Str(Exc("ConnectionError", StatusCodeMsg(code))))>>
    /\ fatal' = Exc("ConnectionError", StatusCodeMsg(code))
    /\ res' = Res(code, "unread", <<>>)
    /\ pc' = "crashed"
    /\ UNCHANGED <<devices, commands, log_cmds, run>>
    /\ UNCHANGED loopVars
    /\ UNCHANGED mainVars

\* Lines 117-119 and 130-133: requests.get itself raises.
GetCommandsTransportError(msg) ==
    /\ pc = "get_mist_commands"
    /\ calls' = Append(calls, Call("get", 0, <<>>, FALSE, msg))
    /\ log' = log \o <<Info("Connecting to Mist API...", None),
                       Error("Could not get commands from Mist API...", None),
                       Error("Error connecting to Mist API",
                             Str(Exc("RequestException", msg)))>>
    /\ fatal' = Exc("RequestException", msg)
    /\ pc' = "crashed"
    /\ UNCHANGED <<devices, commands, log_cmds, res, run>>
    /\ UNCHANGED loopVars
    /\ UNCHANGED mainVars

\* GetCommandsMalformed with the exception swallowed: a malformed body gives
\* the command set of the empty text.
GetCommandsMalformedReturns(kind) ==
    /\ pc = "get_mist_commands"
    /\ calls' = Append(calls, Call("get", 0, <<>>, TRUE, None))
    /\ commands' = Split(<<>>)
    /\ log' = log \o <<Info("Connecting to Mist API...", None),
                       Debug("Reading response from Mist API...", None),
                       Info("Got onboarding commands from Mist API...", None)>>
    /\ log_cmds' = Append(log_cmds, Debug("Commands", Split(<<>>)))
    /\ res' = Res(200, kind, <<>>)
    /\ pc' = "send_commands"
    /\ UNCHANGED <<devices, fatal, run>>
    /\ UNCHANGED loopVars
    /\ UNCHANGED mainVars

\* Lines 117-122 and 130-133: status 200, and res.json()['cmd'].split fails:
\* the body is no JSON (ValueError), has no 'cmd' field (KeyError) or its
\* 'cmd' field is no text (AttributeError).
MalformedKinds == {"ValueError", "KeyError", "AttributeError"}

GetCommandsMalformed(kind) ==
    /\ pc = "get_mist_commands"
    /\ calls' = Append(calls, Call("get", 0, <<>>, TRUE, None))
    /\ log' = log \o <<Info("Connecting to Mist API...", None),
                       Debug("Reading response from Mist API...", None),
                       Error("Could not get commands from Mist API...", None),
                       Error("Error connecting to Mist API",
                             Str(Exc(kind, "cmd")))>>
    /\ fatal' = Exc(kind, "cmd")
    /\ res' = Res(200, kind, <<>>)
    /\ pc' = "crashed"
    /\ UNCHANGED <<devices, commands, log_cmds, run>>
    /\ UNCHANGED loopVars
    /\ UNCHANGED mainVars

\* -------------------------------------------------------- send_commands
getVars == <<devices, commands, fatal, res, run>>

\* The handle the calls of lines 158-161 go to, and the inventory entry the
\* loop is at.
Handle == net_connect
Entry == devices[idx]

\* Lines 147-148.
SendCommandsEnter ==
    /\ pc = "send_commands"
    /\ log' = Append(log, Info("Preparing to send onboarding commands to devices...", None))
    /\ statuses' = <<>>
    /\ pc' = "for"
    /\ UNCHANGED <<idx, status, objs, exc, net_connect, session, running>>
    /\ UNCHANGED <<calls, log_cmds>>
    /\ UNCHANGED getVars
    /\ UNCHANGED mainVars

\* ForBody without the log entry of line 155.
ForBodyNoLog ==
    /\ pc = "for"
    /\ idx < Len(devices)
    /\ idx' = idx + 1
    /\ objs' = Append(objs, [device |-> devices[idx + 1].ip,
                             status |-> "pending",
                             error  |-> None])
    /\ status' = idx + 1
    /\ pc' = "ConnectHandler"
    /\ UNCHANGED <<statuses, exc, net_connect, session, running>>
    /\ UNCHANGED <<calls, log, log_cmds>>
    /\ UNCHANGED getVars
    /\ UNCHANGED mainVars

\* Lines 149-155: the loop takes the next inventory entry and binds `status`
\* to a new dictionary.
ForBody ==
    /\ pc = "for"
    /\ idx < Len(devices)
    /\ idx' = idx + 1
    /\ objs' = Append(objs, [device |-> devices[idx + 1].ip,
                             status |-> "pending",
                             error  |-> None])
    /\ status' = idx + 1
    /\ log' = Append(log, Info("Sending commands to", devices[idx + 1].ip))
    /\ pc' = "ConnectHandler"
    /\ UNCHANGED <<statuses, exc, net_connect, session, running>>
    /\ UNCHANGED <<calls, log_cmds>>
    /\ UNCHANGED getVars
    /\ UNCHANGED mainVars

\* Line 157, ConnectHandler returns: a new handle, bound to net_connect.
ConnectOk ==
    /\ pc = "ConnectHandler"
    /\ calls' = Append(calls, Call("ConnectHandler", idx, <<>>, TRUE, None))
    /\ session' = [session EXCEPT ![idx] = "Connected"]
    /\ net_connect' = idx
    /\ pc' = "find_prompt"
    /\ UNCHANGED <<idx, status, objs, statuses, exc, running>>
    /\ UNCHANGED <<log, log_cmds>>
    /\ UNCHANGED getVars
    /\ UNCHANGED mainVars

\* ConnectFails with one retry: the first exception of ConnectHandler for an
\* entry is swallowed and the connect is issued again.
ConnectFailsRetry(msg) ==
    /\ pc = "ConnectHandler"
    /\ calls' = Append(calls, Call("ConnectHandler", idx, <<>>, FALSE, msg))
    /\ IF \E k \in 1..Len(calls) : calls[k].op = "ConnectHandler" /\ calls[k].dev = idx
       THEN exc' = Exc("Exception", msg) /\ pc' = "except"
       ELSE exc' = exc /\ pc' = "ConnectHandler"
    /\ UNCHANGED <<idx, status, objs, statuses, net_connect, session, running>>
    /\ UNCHANGED <<log, log_cmds>>
    /\ UNCHANGED getVars
    /\ UNCHANGED mainVars

\* Line 157, ConnectHandler raises: no handle, net_connect keeps its binding.
ConnectFails(msg) ==
    /\ pc = "ConnectHandler"
    /\ calls' = Append(calls, Call("ConnectHandler", idx, <<>>, FALSE, msg))
    /\ exc' = Exc("Exception", msg)
    /\ pc' = "except"
    /\ UNCHANGED <<idx, status, objs, statuses, net_connect, session, running>>
    /\ UNCHANGED <<log, log_cmds>>
    /\ UNCHANGED getVars
    /\ UNCHANGED mainVars

\* Line 158, find_prompt returns.
FindPromptOk ==
    /\ pc = "find_prompt"
    /\ calls' = Append(calls, Call("find_prompt", Handle, <<>>, TRUE, None))
    /\ pc' = "send_config_set"
    /\ UNCHANGED loopVars
    /\ UNCHANGED <<log, log_cmds>>
    /\ UNCHANGED getVars
    /\ UNCHANGED mainVars

\* Line 158, find_prompt raises.
FindPromptFails(msg) ==
    /\ pc = "find_prompt"
    /\ calls' = Append(calls, Call("find_prompt", Handle, <<>>, FALSE, msg))
    /\ exc' = Exc("Exception", msg)
    /\ pc' = "except"
    /\ UNCHANGED <<idx, status, objs, statuses, net_connect, session, running>>
    /\ UNCHANGED <<log, log_cmds>>
    /\ UNCHANGED getVars
    /\ UNCHANGED mainVars

\* SendConfigSetOk removing the blank lines from the shared list before it
\* passes it on.
SendConfigSetOkStripsBlanks ==
    /\ pc = "send_config_set"
    /\ commands' = SelectSeq(commands, LAMBDA line : line # <<>>)
    /\ calls' = Append(calls, Call("send_config_set", Handle,
                                   SelectSeq(commands, LAMBDA line : line # <<>>),
                                   TRUE, None))
    /\ session' = [session EXCEPT ![Handle] = "Staged"]
    /\ log_cmds' = Append(log_cmds, Debug("config", Entry.ip))
    /\ pc' = "commit"
    /\ UNCHANGED <<idx, status, objs, statuses, exc, net_connect, running>>
    /\ UNCHANGED log
    /\ UNCHANGED <<devices, fatal, res, run>>
    /\ UNCHANGED mainVars

\* Lines 159-160, send_config_set returns: the lines are in the candidate
\* configuration and the handle stays in configuration mode.
SendConfigSetOk ==
    /\ pc = "send_config_set"
    /\ calls' = Append(calls, Call("send_config_set", Handle, commands, TRUE, None))
    /\ session' = [session EXCEPT ![Handle] = "Staged"]
    /\ log_cmds' = Append(log_cmds, Debug("config", Entry.ip))
    /\ pc' = "commit"
    /\ UNCHANGED <<idx, status, objs, statuses, exc, net_connect, running>>
    /\ UNCHANGED log
    /\ UNCHANGED getVars
    /\ UNCHANGED mainVars

\* SendConfigSetFails with the exception swallowed: the session goes on to
\* the commit.
SendConfigSetFailsSwallowed(msg) ==
    /\ pc = "send_config_set"
    /\ calls' = Append(calls, Call("send_config_set", Handle, commands, FALSE, msg))
    /\ pc' = "commit"
    /\ UNCHANGED <<idx, status, objs, statuses, exc, net_connect, session, running>>
    /\ UNCHANGED <<log, log_cmds>>
    /\ UNCHANGED getVars
    /\ UNCHANGED mainVars

\* Line 159, send_config_set raises.
SendConfigSetFails(msg) ==
    /\ pc = "send_config_set"
    /\ calls' = Append(calls, Call("send_config_set", Handle, commands, FALSE, msg))
    /\ exc' = Exc("Exception", msg)
    /\ pc' = "except"
    /\ UNCHANGED <<idx, status, objs, statuses, net_connect, session, running>>
    /\ UNCHANGED <<log, log_cmds>>
    /\ UNCHANGED getVars
    /\ UNCHANGED mainVars

\* CommitOk without the assignment of line 164.
CommitOkStaysPending ==
    /\ pc = "commit"
    /\ calls' = Append(calls, Call("commit", Handle, <<>>, TRUE, None))
    /\ session' = [session EXCEPT ![Handle] = "Committed"]
    /\ running' = [running EXCEPT ![Entry.ip] = commands]
    /\ log_cmds' = Append(log_cmds, Debug("commit", Entry.ip))
    /\ log' = Append(log, Info("Successfully sent commands to", Entry.ip))
    /\ pc' = "append"
    /\ UNCHANGED <<idx, status, objs, statuses, exc, net_connect>>
    /\ UNCHANGED getVars
    /\ UNCHANGED mainVars

\* Lines 161-164, commit returns: the candidate configuration is the running
\* one, the handle is back in operational mode and `status` is a success.
CommitOk ==
    /\ pc = "commit"
    /\ calls' = Append(calls, Call("commit", Handle, <<>>, TRUE, None))
    /\ session' = [session EXCEPT ![Handle] = "Committed"]
    /\ running' = [running EXCEPT ![Entry.ip] = commands]
    /\ log_cmds' = Append(log_cmds, Debug("commit", Entry.ip))
    /\ log' = Append(log, Info("Successfully sent commands to", Entry.ip))
    /\ objs' = [objs EXCEPT ![status].status = "success"]
    /\ pc' = "append"
    /\ UNCHANGED <<idx, status, statuses, exc, net_connect>>
    /\ UNCHANGED getVars
    /\ UNCHANGED mainVars

\* CommitFails with the exception swallowed: lines 162-164 run as after a
\* commit that returned.
CommitFailsSwallowed(msg, took) ==
    /\ pc = "commit"
    /\ calls' = Append(calls, Call("commit", Handle, <<>>, FALSE, msg))
    /\ running' = IF took THEN [running EXCEPT ![Entry.ip] = commands] ELSE running
    /\ log_cmds' = Append(log_cmds, Debug("commit", Entry.ip))
    /\ log' = Append(log, Info("Successfully sent commands to", Entry.ip))
    /\ objs' = [objs EXCEPT ![status].status = "success"]
    /\ pc' = "append"
    /\ UNCHANGED <<idx, status, statuses, exc, net_connect, session>>
    /\ UNCHANGED getVars
    /\ UNCHANGED mainVars

\* Line 161, commit raises: the device rejected the commit (took = FALSE) or
\* the answer was lost after the device had activated it (took = TRUE).
CommitFails(msg, took) ==
    /\ pc = "commit"
    /\ calls' = Append(calls, Call("commit", Handle, <<>>, FALSE, msg))
    /\ running' = IF took THEN [running EXCEPT ![Entry.ip] = commands] ELSE running
    /\ exc' = Exc("Exception", msg)
    /\ pc' = "except"
    /\ UNCHANGED <<idx, status, objs, statuses, net_connect, session>>
    /\ UNCHANGED <<log, log_cmds>>
    /\ UNCHANGED getVars
    /\ UNCHANGED mainVars

\* ExceptHandler raising again after the logging, as the handler of line 130
\* does: the exception leaves send_commands and the main block.
ExceptHandlerReraise ==
    /\ pc = "except"
    /\ log' = log \o <<Error("Failed sending commands to", Entry.ip),
                       Error("Error sending commands", Str(exc))>>
    /\ objs' = [objs EXCEPT ![status] =
                   [@ EXCEPT !.status = "failed", !.error = Str(exc)]]
    /\ fatal' = exc
    /\ exc' = NoExc
    /\ pc' = "crashed"
    /\ UNCHANGED <<idx, status, statuses, net_connect, session, running>>
    /\ UNCHANGED <<calls, log_cmds>>
    /\ UNCHANGED <<devices, commands, res, run>>
    /\ UNCHANGED mainVars

\* ExceptHandler without the `continue` of line 170: control falls through
\* to the append of line 171.
ExceptHandlerAppends ==
    /\ pc = "except"
    /\ log' = log \o <<Error("Failed sending commands to", Entry.ip),
                       Error("Error sending commands", Str(exc))>>
    /\ objs' = [objs EXCEPT ![status] =
                   [@ EXCEPT !.status = "failed", !.error = Str(exc)]]
    /\ exc' = NoExc
    /\ pc' = "append"
    /\ UNCHANGED <<idx, status, statuses, net_connect, session, running>>
    /\ UNCHANGED <<calls, log_cmds>>
    /\ UNCHANGED getVars
    /\ UNCHANGED mainVars

\* ExceptHandler with `break` in place of `continue`: the loop is left.
ExceptHandlerBreak ==
    /\ pc = "except"
    /\ log' = log \o <<Error("Failed sending commands to", Entry.ip),
                       Error("Error sending commands", Str(exc))>>
    /\ objs' = [objs EXCEPT ![status] =
                   [@ EXCEPT !.status = "failed", !.error = Str(exc)]]
    /\ exc' = NoExc
    /\ stats' = statuses
    /\ pc' = "summary"
    /\ UNCHANGED <<idx, status, statuses, net_connect, session, running>>
    /\ UNCHANGED <<calls, log_cmds, successful, failed>>
    /\ UNCHANGED getVars

\* Lines 165-170: the handler of the try; `continue` goes to the next entry
\* of the loop, past line 171.
ExceptHandler ==
    /\ pc = "except"
    /\ log' = log \o <<Error("Failed sending commands to", Entry.ip),
                       Error("Error sending commands", Str(exc))>>
    /\ objs' = [objs EXCEPT ![status] =
                   [@ EXCEPT !.status = "failed", !.error = Str(exc)]]
    /\ exc' = NoExc
    /\ pc' = "for"
    /\ UNCHANGED <<idx, status, statuses, net_connect, session, running>>
    /\ UNCHANGED <<calls, log_cmds>>
    /\ UNCHANGED getVars
    /\ UNCHANGED mainVars

\* Line 171.
AppendStatus ==
    /\ pc = "append"
    /\ statuses' = Append(statuses, status)
    /\ pc' = "for"
    /\ UNCHANGED <<idx, status, objs, exc, net_connect, session, running>>
    /\ UNCHANGED <<calls, log, log_cmds>>
    /\ UNCHANGED getVars
    /\ UNCHANGED mainVars

\* Line 172 and the assignment of line 179: the loop is exhausted.
Return ==
    /\ pc = "for"
    /\ idx = Len(devices)
    /\ stats' = statuses
    /\ pc' = "summary"
    /\ UNCHANGED loopVars
    /\ UNCHANGED <<calls, log, log_cmds, successful, failed>>
    /\ UNCHANGED getVars

\* ------------------------------------------------------------ main block
\* ', '.join(parts).
RECURSIVE Join(_)
Join(parts) ==
    IF parts = <<>> THEN <<>>
    ELSE IF Len(parts) = 1 THEN <<parts[1]>>
    ELSE <<parts[1], ", ">> \o Join(Tail(parts))

\* The dictionaries a list of references names.
Deref(refs) == [k \in 1..Len(refs) |-> objs[refs[k]]]

\* The comprehensions of lines 180 and 181.
WithStatus(refs, s) == SelectSeq(refs, LAMBDA r : objs[r].status = s)

DeviceNames(refs) == [k \in 1..Len(refs) |-> objs[refs[k]].device]

\* Lines 180-185.
Summary ==
    /\ pc = "summary"
    /\ successful' = WithStatus(stats, "success")
    /\ failed' = WithStatus(stats, "failed")
    /\ log' = log \o
         <<Info("Successful", Len(WithStatus(stats, "success"))),
           Info("Successful devices", Join(DeviceNames(WithStatus(stats, "success")))),
           Info("Failed", Len(WithStatus(stats, "failed"))),
           Info("Failed devices", Join(DeviceNames(WithStatus(stats, "failed"))))>>
    /\ pc' = "done"
    /\ UNCHANGED loopVars
    /\ UNCHANGED <<calls, log_cmds, stats>>
    /\ UNCHANGED getVars

\* ---------------------------------------------------------- specification
Next ==
    \/ \E text \in Texts : GetCommandsOk(text)
    \/ \E code \in StatusCodes : GetCommandsBadStatus(code)
    \/ \E msg \in Messages : GetCommandsTransportError(msg)
    \/ \E kind \in MalformedKinds : GetCommandsMalformed(kind)
    \/ SendCommandsEnter
    \/ ForBody
    \/ ConnectOk
    \/ \E msg \in Messages : ConnectFails(msg)
    \/ FindPromptOk
    \/ \E msg \in Messages : FindPromptFails(msg)
    \/ SendConfigSetOk
    \/ \E msg \in Messages : SendConfigSetFails(msg)
    \/ CommitOk
    \/ \E msg \in Messages, took \in BOOLEAN : CommitFails(msg, took)
    \/ ExceptHandler
    \/ AppendStatus
    \/ Return
    \/ Summary

Spec == Init /\ [][Next]_vars

\* The report send_commands returned, and the summary counts of lines 182
\* and 184.
Report == Deref(stats)
Returned == pc \in {"summary", "done"}

\* ------------------------------------------------- what the calls tell
\* Positions of the calls of operation op on the handle of entry i.
CallsOf(op, i) == {k \in 1..Len(calls) : calls[k].op = op /\ calls[k].dev = i}

ConnectIssued(i) == CallsOf("ConnectHandler", i) # {}

\* The session of entry i failed: one of its calls raised.
SessionFailed(i) == \E k \in 1..Len(calls) : calls[k].dev = i /\ ~calls[k].ok

\* The session of entry i succeeded: its commit returned.
SessionSucceeded(i) == \E k \in CallsOf("commit", i) : calls[k].ok

\* The message of the exception that ended the session of entry i.
RaisedMsg(i) ==
    calls[CHOOSE k \in 1..Len(calls) : calls[k].dev = i /\ ~calls[k].ok].err

Entries == 1..Len(devices)

RetrievalFailed == pc # "get_mist_commands" /\ commands = <<>>

\* ------------------------------------------------------------------- C1
\* C1: once retrieval has succeeded, the report send_commands returns has
\* exactly one entry per inventory device, the i-th entry being for the
\* i-th device, whatever the outcomes of the sessions.
C1_OneEntryPerDevice ==
    Returned =>
        /\ Len(Report) = Len(devices)
        /\ \A i \in 1..Len(Report) : Report[i].device = devices[i].ip

\* ------------------------------------------------------------------- C2
\* C2: failure isolation.  When send_commands has returned, every entry
\* after an entry whose session failed has had its connect issued; and no
\* step changes the status dictionary of an entry before the one the loop
\* is at.
C2_FailureIsolation ==
    /\ [](Returned =>
            \A d \in Entries : SessionFailed(d) =>
                \A j \in (d + 1)..Len(devices) : ConnectIssued(j))
    /\ [][\A j \in 1..Len(objs) : j < status => objs'[j] = objs[j]]_vars

C2_Witness ==
    /\ Returned
    /\ Len(devices) = 2
    /\ SessionFailed(1)
    /\ ConnectIssued(2)
    /\ objs[2].status = "success"

\* ------------------------------------------------------------------- C3
\* C3: if command-set retrieval fails, no call is issued to any device, no
\* status dictionary is created, nothing is reported and the run has ended
\* with the retrieval error leaving the main block.
C3_RetrievalFailureIsFatal ==
    RetrievalFailed =>
        /\ pc = "crashed"
        /\ fatal # NoExc
        /\ log[Len(log)] = Error("Error connecting to Mist API", Str(fatal))
        /\ \A k \in 1..Len(calls) : calls[k].op = "get"
        /\ Len(calls) = 1
        /\ objs = <<>> /\ statuses = <<>> /\ stats = <<>>
        /\ \A i \in Indices : session[i] = "Disconnected"

C3_Witness ==
    /\ pc = "crashed"
    /\ Len(devices) > 0
    /\ fatal = Exc("ConnectionError", "Status code: 401")

\* ------------------------------------------------------------------- C4
\* C4: for every entry whose session failed, the returned report has an
\* entry for that device with outcome failed and, as error, the message of
\* the exception that was raised.
C4_FailedEntryReported ==
    Returned =>
        \A i \in Entries : SessionFailed(i) =>
            \E k \in 1..Len(Report) :
                /\ Report[k].device = devices[i].ip
                /\ Report[k].status = "failed"
                /\ Report[k].error = RaisedMsg(i)

\* ------------------------------------------------------------------- C5
\* C5: the summary counts every device: the number of failed devices it
\* reports is the number of failed sessions, the number of successful ones
\* the number of succeeded sessions, and the two sum to the inventory size.
C5_SummaryCounts ==
    pc = "done" =>
        /\ Len(failed) = Cardinality({i \in Entries : SessionFailed(i)})
        /\ Len(successful) = Cardinality({i \in Entries : SessionSucceeded(i)})
        /\ Len(successful) + Len(failed) = Len(devices)

\* ------------------------------------------------------------------- C6
\* C6: the connection opened for a device is released on every exit path:
\* whenever the loop is between two entries, and when send_commands has
\* returned, every handle is back in the Disconnected state.
C6_ConnectionReleased ==
    pc \in {"for", "summary", "done"} =>
        \A i \in Indices : session[i] = "Disconnected"

\* ------------------------------------------------------------------- C7
\* C7: the phases of a session occur only in the order connect, prompt
\* confirmation, apply, commit: each of the last three is issued right
\* after the phase before it returned on the same handle, so no commit is
\* issued for an entry whose connect, prompt check or apply raised; and a
\* command set is active on a device only through such a commit.
Follows(k, op) ==
    /\ k > 1
    /\ calls[k - 1].op = op
    /\ calls[k - 1].dev = calls[k].dev
    /\ calls[k - 1].ok

C7_PhaseOrder ==
    /\ \A k \in 1..Len(calls) :
        /\ calls[k].op = "find_prompt" => Follows(k, "ConnectHandler")
        /\ calls[k].op = "send_config_set" => Follows(k, "find_prompt")
        /\ calls[k].op = "commit" => Follows(k, "send_config_set")
    /\ \A ip \in IPs : running[ip] # <<>> =>
        \E k \in 1..Len(calls) :
            /\ calls[k].op = "commit"
            /\ devices[calls[k].dev].ip = ip
            /\ Follows(k, "send_config_set")

C7_Witness ==
    /\ pc = "for"
    /\ \E k \in 1..Len(calls) : calls[k].op = "send_config_set" /\ ~calls[k].ok
    /\ \E k \in 1..Len(calls) : calls[k].op = "commit" /\ calls[k].ok

\* ------------------------------------------------------------------- C8
\* C8: a status dictionary is created with outcome pending before any call
\* of its entry's session is issued, its outcome changes only from pending
\* to success or failed, and once send_commands has returned every
\* dictionary has left pending, so that no entry of the report is pending.
C8_StatusLifecycle ==
    /\ [](\A k \in 1..Len(calls) : calls[k].dev <= Len(objs))
    /\ [][Len(objs') > Len(objs) =>
            /\ objs'[Len(objs')].status = "pending"
            /\ CallsOf("ConnectHandler", Len(objs')) = {}]_vars
    /\ [][\A j \in 1..Len(objs) : objs'[j].status # objs[j].status =>
            /\ objs[j].status = "pending"
            /\ objs'[j].status \in {"success", "failed"}]_vars
    /\ [](Returned =>
            /\ Len(objs) = Len(devices)
            /\ \A j \in 1..Len(objs) : objs[j].status # "pending"
            /\ \A k \in 1..Len(Report) : Report[k].status # "pending")

C8_Witness ==
    /\ Returned
    /\ Len(objs) = 2
    /\ objs[1].status = "failed"
    /\ objs[2].status = "success"
    /\ Len(Report) = 1

\* ------------------------------------------------------------------- C9
\* C9: a status dictionary has outcome success only if connect, prompt
\* confirmation, apply and commit of its entry all returned and none of its
\* calls raised, and then its error is None.
C9_SuccessMeansAllPhases ==
    \A j \in 1..Len(objs) : objs[j].status = "success" =>
        /\ \A op \in {"ConnectHandler", "find_prompt", "send_config_set", "commit"} :
            \E k \in CallsOf(op, j) : calls[k].ok
        /\ ~SessionFailed(j)
        /\ objs[j].error = None

C9_Witness ==
    /\ Returned
    /\ \E j \in 1..Len(objs) : objs[j].status = "success"
    /\ \E k \in 1..Len(calls) :
        /\ calls[k].op = "commit" /\ ~calls[k].ok
        /\ running[devices[calls[k].dev].ip] # <<>>
        /\ objs[calls[k].dev].status = "failed"

\* ------------------------------------------------------------------ C10
\* C10: processing is sequential without overlap: at most one handle is in
\* a state other than Disconnected, and when the connect of an entry is
\* about to be issued the handles of all earlier entries are Disconnected.
C10_NoOverlap ==
    /\ Cardinality({i \in Indices : session[i] # "Disconnected"}) <= 1
    /\ pc = "ConnectHandler" =>
        \A j \in 1..(idx - 1) : session[j] = "Disconnected"

\* ------------------------------------------------------------------ C11
\* C11: an exception raised while an entry is processed never leaves
\* send_commands: once a call to a device has been issued the run is never
\* ended by an exception, a raised exception is always at the handler of
\* line 165, and after the handler the loop goes on.
C11_DeviceErrorsNeverEscape ==
    /\ (\E k \in 1..Len(calls) : calls[k].dev # 0) =>
        /\ pc # "crashed"
        /\ fatal = NoExc
    /\ exc # NoExc => pc = "except"
    /\ \A i \in Entries : SessionFailed(i) =>
        pc \in {"except", "for", "ConnectHandler", "find_prompt",
                "send_config_set", "commit", "append", "summary", "done"}

C11_Witness ==
    /\ Returned
    /\ Len(devices) = 2
    /\ \E k \in CallsOf("ConnectHandler", 1) : ~calls[k].ok
    /\ \E k \in CallsOf("commit", 2) : ~calls[k].ok

\* ------------------------------------------------------------------ C12
\* C12: single-attempt semantics: the command-set request is issued exactly
\* once in a run, also when it fails, and for each inventory entry connect,
\* prompt check, apply and commit are each issued at most once, so nothing
\* is issued again for an entry after one of its calls raised.
PhaseOps == {"ConnectHandler", "find_prompt", "send_config_set", "commit"}

C12_SingleAttempt ==
    /\ Cardinality(CallsOf("get", 0)) = IF pc = "get_mist_commands" THEN 0 ELSE 1
    /\ \A i \in Entries : \A op \in PhaseOps : Cardinality(CallsOf(op, i)) <= 1
    /\ \A k \in 1..Len(calls) : ~calls[k].ok =>
        \A m \in (k + 1)..Len(calls) : calls[m].dev # calls[k].dev

C12_Witness ==
    /\ Returned
    /\ Len(devices) = 2
    /\ \E k \in CallsOf("send_config_set", 1) : ~calls[k].ok
    /\ \E k \in CallsOf("find_prompt", 2) : ~calls[k].ok

\* ------------------------------------------------------------------ C13
\* C13: get_mist_commands returns a command set only when the request
\* completed with status 200 and a body whose 'cmd' field is a text; for
\* every other status, a transport failure or a malformed body it raises,
\* no command set is bound and the run has ended with that exception.
C13_CommandSetOnlyOn200 ==
    pc # "get_mist_commands" =>
        IF res.status_code = 200 /\ res.kind = "text"
        THEN /\ commands # <<>>
             /\ fatal = NoExc
             /\ pc # "crashed"
        ELSE /\ commands = <<>>
             /\ fatal # NoExc
             /\ pc = "crashed"

C13_Witness ==
    /\ pc = "crashed"
    /\ res.status_code = 200
    /\ res.kind = "KeyError"
    /\ fatal.type = "KeyError"

\* ------------------------------------------------------------------ C14
\* C14: the command set is fetched once and shared read-only: from its
\* retrieval on, `commands` is the list of lines the response gave, and
\* every apply call, for whatever entry and after whatever outcomes of the
\* earlier entries, is passed exactly that list.
C14_CommandSetShared ==
    /\ Cardinality(CallsOf("get", 0)) <= 1
    /\ commands # <<>> => commands = Split(res.cmd)
    /\ \A k \in 1..Len(calls) : calls[k].op = "send_config_set" =>
        /\ commands # <<>>
        /\ calls[k].arg = Split(res.cmd)

C14_Witness ==
    /\ Returned
    /\ commands = << <<"s">>, <<>> >>
    /\ \E k \in CallsOf("commit", 1) : ~calls[k].ok
    /\ \E k \in CallsOf("send_config_set", 1) : calls[k].arg = commands
    /\ \E k \in CallsOf("send_config_set", 2) : calls[k].arg = commands

\* ------------------------------------------------------------------ C15
MaxRuns == 2

\* The program is invoked again on the same inventory file after a run that
\* reached line 185: lines 175-177 of a new process.  The devices keep the
\* configuration the earlier runs activated; nothing else is kept.
Rerun ==
    /\ pc = "done"
    /\ run < MaxRuns
    /\ run' = run + 1
    /\ pc' = "get_mist_commands"
    /\ commands' = <<>>
    /\ fatal' = NoExc
    /\ res' = NoRes
    /\ idx' = 0
    /\ status' = 0
    /\ objs' = <<>>
    /\ statuses' = <<>>
    /\ exc' = NoExc
    /\ net_connect' = 0
    /\ session' = [i \in Indices |-> "Disconnected"]
    /\ calls' = <<>>
    /\ log' = <<>>
    /\ log_cmds' = <<>>
    /\ stats' = <<>>
    /\ successful' = <<>>
    /\ failed' = <<>>
    /\ UNCHANGED <<devices, running>>

\* The texts the Mist API answers with in the runs of SpecRerun.
RerunTexts == {<<"s">>, <<"s", NL>>}

NextRerun ==
    \/ \E text \in RerunTexts : GetCommandsOk(text)
    \/ \E code \in StatusCodes : GetCommandsBadStatus(code)
    \/ \E msg \in Messages : GetCommandsTransportError(msg)
    \/ \E kind \in MalformedKinds : GetCommandsMalformed(kind)
    \/ SendCommandsEnter
    \/ ForBody
    \/ ConnectOk
    \/ \E msg \in Messages : ConnectFails(msg)
    \/ FindPromptOk
    \/ \E msg \in Messages : FindPromptFails(msg)
    \/ SendConfigSetOk
    \/ \E msg \in Messages : SendConfigSetFails(msg)
    \/ CommitOk
    \/ \E msg \in Messages, took \in BOOLEAN : CommitFails(msg, took)
    \/ ExceptHandler
    \/ AppendStatus
    \/ Return
    \/ Summary
    \/ Rerun

SpecRerun == Init /\ [][NextRerun]_vars


\* C15: running the batch again is safe.  In a run that follows a completed
\* run, whatever the devices answer, no exception raised while an entry is
\* processed ends the run; the list `statuses` is empty before the first
\* entry is taken, and at any time it names only dictionaries created in
\* this run for entries whose commit returned in this run, in inventory
\* order.
LoopPcs == {"for", "ConnectHandler", "find_prompt", "send_config_set",
            "commit", "except", "append"}

C15_RerunSafe ==
    run > 1 =>
        /\ (\E k \in 1..Len(calls) : calls[k].dev # 0) =>
            /\ pc # "crashed"
            /\ fatal = NoExc
        /\ (pc \in LoopPcs /\ idx = 0) => statuses = <<>>
        /\ Len(statuses) <= idx
        /\ \A k \in 1..Len(statuses) :
            /\ statuses[k] <= Len(objs)
            /\ SessionSucceeded(statuses[k])
            /\ objs[statuses[k]].status = "success"
            /\ k > 1 => statuses[k - 1] < statuses[k]

\* A second run has returned after a first run that onboarded the device of
\* the first entry, and in the second run that entry's session failed.
C15_Witness ==
    /\ run = 2
    /\ Returned
    /\ Len(devices) = 2
    /\ devices[1].ip # devices[2].ip
    /\ running[devices[1].ip] # <<>>
    /\ \E k \in CallsOf("find_prompt", 1) : ~calls[k].ok
    /\ SessionSucceeded(2)

\* ------------------------------------------------------------------ C16
\* C16: the path that records a failed status skips the append: the report
\* send_commands returns is exactly the subsequence, in inventory order, of
\* the entries whose session succeeded, every entry of it has status
\* success and error None, and each failed entry appears in the log only.
SucceededEntries ==
    SelectSeq([i \in 1..Len(devices) |-> i], LAMBDA i : SessionSucceeded(i))

InLog(entry) == \E k \in 1..Len(log) : log[k] = entry

C16_ReportIsSuccessSubsequence ==
    Returned =>
        /\ stats = SucceededEntries
        /\ \A k \in 1..Len(Report) :
            /\ Report[k].device = devices[stats[k]].ip
            /\ Report[k].status = "success"
            /\ Report[k].error = None
        /\ \A i \in Entries : SessionFailed(i) =>
            /\ \A k \in 1..Len(stats) : stats[k] # i
            /\ objs[i].status = "failed"
            /\ InLog(Error("Failed sending commands to", devices[i].ip))
            /\ InLog(Error("Error sending commands", RaisedMsg(i)))

C16_Witness ==
    /\ Returned
    /\ Len(devices) = 2
    /\ SessionSucceeded(1)
    /\ \E k \in CallsOf("send_config_set", 2) : ~calls[k].ok
    /\ stats = <<1>>

\* ------------------------------------------------------------------ C17
\* C17: on a successful response the command text is split on line breaks
\* so that joining the lines with a line break gives the text back: there
\* is one line more than there are line breaks, no line holds a line break,
\* and empty lines, a trailing one included, are kept.
RECURSIVE JoinLines(_)
JoinLines(lines) ==
    IF Len(lines) = 1 THEN lines[1]
    ELSE lines[1] \o <<NL>> \o JoinLines(Tail(lines))

LineBreaks(text) == Cardinality({k \in 1..Len(text) : text[k] = NL})

C17_SplitRoundTrip ==
    (pc # "get_mist_commands" /\ res.status_code = 200 /\ res.kind = "text") =>
        /\ Len(commands) = LineBreaks(res.cmd) + 1
        /\ \A k \in 1..Len(commands) : LineBreaks(commands[k]) = 0
        /\ JoinLines(commands) = res.cmd

C17_Witness ==
    /\ pc = "send_commands"
    /\ res.cmd = <<NL, NL>>
    /\ commands = << <<>>, <<>>, <<>> >>

\* ------------------------------------------------------------------ C18
\* C18: progress logging follows the device order.  The entries of the
\* progress log that are about devices are, for the entries taken so far
\* and in inventory order: one 'attempting' entry, then, once the outcome
\* is decided, one terminal entry: 'succeeded', or 'failed' directly
\* followed by the reason; so the terminal entry of an entry precedes the
\* 'attempting' entry of the next one.  No call is issued to a device
\* before its 'attempting' entry.
DeviceTexts == {"Sending commands to", "Successfully sent commands to",
                "Failed sending commands to", "Error sending commands"}

DeviceLog == SelectSeq(log, LAMBDA entry : entry[2] \in DeviceTexts)

\* What the log holds about the entry of index i.
ExpectedLog(i) ==
    <<Info("Sending commands to", devices[i].ip)>> \o
    ( CASE objs[i].status = "success" ->
             <<Info("Successfully sent commands to", devices[i].ip)>>
        [] objs[i].status = "failed" ->
             <<Error("Failed sending commands to", devices[i].ip),
               Error("Error sending commands", RaisedMsg(i))>>
        [] OTHER -> <<>> )

RECURSIVE ExpectedLogUpTo(_)
ExpectedLogUpTo(n) ==
    IF n = 0 THEN <<>> ELSE ExpectedLogUpTo(n - 1) \o ExpectedLog(n)

Attempts == Len(SelectSeq(log, LAMBDA entry : entry[2] = "Sending commands to"))

SpecFair == Spec /\ WF_vars(Next)

\* The inventory indices ConnectHandler was called for, in call order.
ConnectOrder ==
    [k \in 1..Len(SelectSeq(calls, LAMBDA c : c.op = "ConnectHandler")) |->
        SelectSeq(calls, LAMBDA c : c.op = "ConnectHandler")[k].dev]

\* C19: for every inventory, when each session operation returns or raises,
\* send_commands, once entered, eventually returns; and when it has
\* returned it has taken each inventory entry exactly once, in inventory
\* order.
C19_SendCommandsTerminates ==
    /\ (pc = "send_commands") ~> Returned
    /\ [](Returned =>
            /\ idx = Len(devices)
            /\ Len(objs) = Len(devices)
            /\ ConnectOrder = [k \in 1..Len(devices) |-> k])

C19_Witness ==
    /\ Returned
    /\ Len(devices) = 2
    /\ SessionSucceeded(1)
    /\ SessionSucceeded(2)
    /\ ConnectOrder = <<1, 2>>

=============================================================================
